---- MODULE Spec2Model ----
(***************************************************************************)
(* Sweet Shop Management System: the catalog service (SweetService), the   *)
(* Sweet entity, the /api/sweets routes with their validation chains and   *)
(* the access-control middleware, and the authentication service           *)
(* (AuthService) with the /api/auth routes and the User entity, as a state *)
(* machine over the sweets table, the users table and the requests in      *)
(* flight.                                                                 *)
(*                                                                         *)
(* Every await of the code is a point where another request may run, so a  *)
(* request is a small process: the authentication middleware, then the     *)
(* route handler up to its first repository call, then the continuation    *)
(* that checks, mutates and saves.                                         *)
(***************************************************************************)
EXTENDS Integers, Sequences, FiniteSets, TLC

\* ------------------------------------------------------------------ bounds
MaxSweets == 1      \* sweets ever created (ids 1..MaxSweets; id 0 is never stored)
MaxReqs   == 2      \* requests in flight at once
MaxAmt    == 2      \* largest quantity a request body carries
MaxQty    == 11     \* cap on a stored quantity (guards the unbounded restock)
MaxUsers  == 2      \* users ever registered (ids 1..MaxUsers)
MaxNames  == 2      \* distinct mailboxes, usernames and passwords a body carries
MaxSeed   == 1      \* sample sweets a reseed inserts
MaxRows   == 2      \* sweets of the table the service is called on, call by call
MaxLen    == 2      \* characters of a sweet's name and of a name filter
MaxPrice  == 2      \* largest price stored or asked for
MaxClock  == 1      \* seconds that pass after the rows were written
MaxCalls  == 1      \* service calls made one after the other

VARIABLES
  sweets,   \* the sweets table: id -> row, for the ids that are stored
  nextId,   \* the next primary key the table generates
  reqs,     \* the /api/sweets request slots: each idle, in flight or answered
  users,    \* the users table: id -> row, for the ids that are stored
  nextUserId, \* the next primary key the users table generates
  areqs,    \* the /api/auth request slots
  rows,     \* the sweets table with every column, for the calls made one by one
  clock,    \* the seconds since the rows were written
  last      \* the last call made one by one: its arguments, the table before it, its answer

catalogVars == <<sweets, nextId, reqs>>
authVars == <<users, nextUserId, areqs>>
serviceVars == <<rows, clock, last>>
vars == <<sweets, nextId, reqs, users, nextUserId, areqs, rows, clock, last>>

Slots == 1..MaxReqs
SweetIds == 1..MaxSweets
PathIds == 0..MaxSweets

\* ------------------------------------------------------- JavaScript values
\* A request body field is a JSON number, a string of decimal digits (a JSON
\* string, or any field of a urlencoded body) or absent.
Num(n) == [t |-> "number", v |-> n]
Str(n) == [t |-> "string", v |-> n]
Undefined == [t |-> "undefined", v |-> 0]

RECURSIVE Digits(_)
Digits(n) == IF n < 10 THEN 1 ELSE 1 + Digits(n \div 10)

RECURSIVE Pow10(_)
Pow10(k) == IF k = 0 THEN 1 ELSE 10 * Pow10(k - 1)

\* String(a) + String(b) of two non-negative integers, read back as a number.
Concat(a, b) == a * Pow10(Digits(b)) + b

\* x || d
JsOr(x, d) == IF x.t = "undefined" \/ (x.t = "number" /\ x.v = 0) THEN d ELSE x

\* Mutants of JsLess: the comparison never true, and off by one.
JsLessNever(a, b) == FALSE
JsLessOffByOne(a, b) == a.t # "undefined" /\ b.t # "undefined" /\ a.v + 1 < b.v

\* a < b and a <= 0 with a numeric operand on one side: the other is converted
\* to a number, and undefined converts to NaN, which compares false.
JsLess(a, b) == a.t # "undefined" /\ b.t # "undefined" /\ a.v < b.v
JsNotPositive(a) == a.t # "undefined" /\ a.v <= 0

\* A default parameter value replaces an undefined argument.
Default(x, d) == IF x.t = "undefined" THEN d ELSE x

\* Mutant of JsSub: one unit is taken whatever the amount.
JsSubOne(a, b) == Num(a.v - 1)

\* a - b converts both operands to numbers.
JsSub(a, b) == Num(a.v - b.v)

\* a + b adds two numbers and concatenates as soon as one operand is a string.
JsAdd(a, b) ==
  IF a.t = "number" /\ b.t = "number" THEN Num(a.v + b.v) ELSE Str(Concat(a.v, b.v))

\* The value an INTEGER column keeps of what it is handed.
ColumnInteger(x) == x.v

\* ------------------------------------------------------------- validators
\* isInt({min}) of express-validator runs on the value converted to a string.
IsInt(x, min) == x.t \in {"number", "string"} /\ x.v >= min

\* .optional() skips the chain for an absent field only.
OptionalIsInt(x, min) == x.t = "undefined" \/ IsInt(x, min)

\* Mutants of the purchase and restock chains: isInt({ min: 0 }).
purchaseValidationMinZero(body) == OptionalIsInt(body, 0)
restockValidationMinZero(body) == IsInt(body, 0)

createSweetValidation(body) == IsInt(body, 0)
updateSweetValidation(body) == OptionalIsInt(body, 0)
purchaseValidation(body) == OptionalIsInt(body, 1)
restockValidation(body) == IsInt(body, 1)

\* ---------------------------------------------------------------- messages
\* Error messages are word sequences, so that the routes' message.includes()
\* is computed and not assumed.
NoMessage == <<>>
SweetNotFound == <<"Sweet", "not", "found">>
PurchaseMustBePositive == <<"Purchase", "quantity", "must", "be", "positive">>
PurchaseAmountMustBePositive == <<"Purchase", "amount", "must", "be", "positive">>
RestockMustBePositive == <<"Restock", "quantity", "must", "be", "positive">>
RestockAmountMustBePositive == <<"Restock", "amount", "must", "be", "positive">>
InsufficientStock == <<"Insufficient", "stock">>
NoTokenProvided == <<"No", "authentication", "token", "provided">>
InvalidOrExpiredToken == <<"Invalid", "or", "expired", "token">>
UserNotFound == <<"User", "not", "found">>
AuthenticationRequired == <<"Authentication", "required">>
AdminAccessRequired == <<"Admin", "access", "required">>
UserAlreadyExists == <<"User", "with", "this", "email", "already", "exists">>
UniqueConstraintFailed == <<"SQLITE_CONSTRAINT:", "UNIQUE", "constraint", "failed:", "users.email">>
InvalidEmailOrPassword == <<"Invalid", "email", "or", "password">>
UserRegistered == <<"User", "registered", "successfully">>
LoginSuccessful == <<"Login", "successful">>

\* Mutant of IncludesNotFound: the search is for 'Not found'.
IncludesNotFoundCapital(m) ==
  \E i \in 1..(Len(m) - 1) : m[i] = "Not" /\ m[i + 1] = "found"

IncludesNotFound(m) ==
  \E i \in 1..(Len(m) - 1) : m[i] = "not" /\ m[i + 1] = "found"

\* statusCode = message.includes('not found') ? 404 : 400
ErrorStatus(m) == IF IncludesNotFound(m) THEN 404 ELSE 400

\* ------------------------------------------------------------ the entity
\* A loaded Sweet: found is FALSE for findById's null.
NoEntity == [found |-> FALSE, quantity |-> Undefined]
Entity(q) == [found |-> TRUE, quantity |-> q]

Ok(e) == [err |-> NoMessage, sweet |-> e]
Thrown(m) == [err |-> m, sweet |-> NoEntity]

\* Sweet.purchase(amount)
SweetPurchase(e, amount) ==
  IF JsNotPositive(amount) THEN Thrown(PurchaseAmountMustBePositive)
  ELSE IF JsLess(e.quantity, amount) THEN Thrown(InsufficientStock)
  ELSE Ok(Entity(JsSub(e.quantity, amount)))

\* Sweet.restock(amount)
SweetRestock(e, amount) ==
  IF JsNotPositive(amount) THEN Thrown(RestockAmountMustBePositive)
  ELSE Ok(Entity(JsAdd(e.quantity, amount)))

\* ----------------------------------------------------------- the service
\* SweetService.findById
findById(id) == IF id \in DOMAIN sweets THEN Entity(Num(sweets[id].quantity)) ELSE NoEntity

\* SweetService.purchase(id, quantity = 1), from the resolution of findById on
ServicePurchase(e, qty) ==
  LET quantity == Default(qty, Num(1)) IN
  IF ~e.found THEN Thrown(SweetNotFound)
  ELSE IF JsNotPositive(quantity) THEN Thrown(PurchaseMustBePositive)
  ELSE IF JsLess(e.quantity, quantity) THEN Thrown(InsufficientStock)
  ELSE SweetPurchase(e, quantity)

\* SweetService.restock, from the resolution of findById on
ServiceRestock(e, quantity) ==
  IF ~e.found THEN Thrown(SweetNotFound)
  ELSE IF JsNotPositive(quantity) THEN Thrown(RestockMustBePositive)
  ELSE SweetRestock(e, quantity)

\* Object.assign(sweet, data) of SweetService.update
Assign(e, body) == IF body.t = "undefined" THEN e ELSE Entity(body)

\* repository.save of an entity with a primary key: the row is written when it
\* is stored and inserted when it is not.
Save(table, id, e) ==
  [i \in (DOMAIN table) \cup {id} |->
     IF i = id THEN [quantity |-> ColumnInteger(e.quantity)] ELSE table[i]]

\* repository.delete(id)
\* Mutant of Delete: no row is removed.
DeleteNothing(table, id) == table

Delete(table, id) == [i \in (DOMAIN table) \ {id} |-> table[i]]

\* ---------------------------------------------------------- the users
UserIds == 1..MaxUsers

\* An email address: its mailbox, and whether it is written with upper-case
\* letters. Mailbox 0 is a string that is not an address.
Email(n, u) == [name |-> n, upper |-> u]

\* A password as submitted, and its bcrypt digest. Password 0 is the empty one.
Plain(p) == [t |-> "plain", of |-> p]
Digest(p) == [t |-> "digest", of |-> p]

\* A users table with an administrator (the first user, elevated by the seed
\* script) and a customer.
Registered ==
  [id \in UserIds |->
     [email |-> Email(id, FALSE), username |-> id, password |-> Digest(id),
      role |-> IF id = 1 THEN "admin" ELSE "user"]]

\* The same users before any of them is made an administrator.
Customers == [id \in UserIds |-> [Registered[id] EXCEPT !.role = "user"]]

\* A User entity; id 0 is findOne's null.
NullUser ==
  [id |-> 0, email |-> Email(0, FALSE), username |-> 0, password |-> Plain(0), role |-> "none"]
UserEntity(id, row) ==
  [id |-> id, email |-> row.email, username |-> row.username,
   password |-> row.password, role |-> row.role]
UserRow(u) ==
  [email |-> u.email, username |-> u.username, password |-> u.password, role |-> u.role]

\* userRepository.findOne({ where: { email } }): the comparison is exact
findOneByEmail(table, email) ==
  IF \E id \in DOMAIN table : table[id].email = email
  THEN LET id == CHOOSE i \in DOMAIN table : table[i].email = email
       IN UserEntity(id, table[id])
  ELSE NullUser

\* userRepository.findOne({ where: { id } })
findOneById(table, id) ==
  IF id \in DOMAIN table THEN UserEntity(id, table[id]) ELSE NullUser

\* User.hashPassword (BeforeInsert): an empty password is left as it is
hashPassword(u) ==
  IF u.password.of # 0 THEN [u EXCEPT !.password = Digest(u.password.of)] ELSE u

\* User.comparePassword: bcrypt.compare of the candidate with the stored value
comparePassword(u, candidate) ==
  u.password.t = "digest" /\ u.password.of = candidate.of

\* Mutant of toJSON: the projection keeps the password.
toJSONWithPassword(u) ==
  [id |-> u.id, email |-> u.email, username |-> u.username, role |-> u.role,
   password |-> u.password]

\* User.toJSON
toJSON(u) ==
  [id |-> u.id, email |-> u.email, username |-> u.username, role |-> u.role]

\* AuthService.getUserById
getUserById(table, userId) ==
  IF findOneById(table, userId).id # 0 THEN toJSON(findOneById(table, userId)) ELSE [id |-> 0]

\* --------------------------------------------------------------- tokens
\* A JSON web token: its payload, whether its signature is the one the secret
\* gives for that payload, and whether its expiry has passed when presented.
Token(userId, email, role, signed, expired) ==
  [userId |-> userId, email |-> email, role |-> role, signed |-> signed, expired |-> expired]

\* A string that is no token, and the absent token of a failure response.
Malformed == Token(0, Email(0, FALSE), "none", FALSE, FALSE)
NoToken == Malformed

\* Mutant of generateToken: the token has expired when it is issued.
generateTokenExpired(u) == Token(u.id, u.email, u.role, TRUE, TRUE)

\* AuthService.generateToken: jwt.sign({ userId, email, role }, secret, { expiresIn })
generateToken(u) == Token(u.id, u.email, u.role, TRUE, FALSE)

\* Mutant of jwtVerify: the token is decoded and its signature is not checked.
jwtVerifyDecodeOnly(tok) == ~tok.expired

\* Mutant of jwtVerify: the token is decoded and its expiry is not looked at.
jwtVerifyIgnoreExpiration(tok) == tok.signed

\* jwt.verify(token, secret) returns the payload, and throws otherwise
jwtVerify(tok) == tok.signed /\ ~tok.expired

\* AuthService.verifyToken
verifyToken(tok, table) ==
  IF ~jwtVerify(tok) THEN NullUser ELSE findOneById(table, tok.userId)

\* ------------------------------------------------------ access control
\* The Authorization header: absent, of another scheme, or "Bearer <token>".
NoHeader == [scheme |-> "none", token |-> Malformed]
Basic == [scheme |-> "Basic", token |-> Malformed]
Bearer(tok) == [scheme |-> "Bearer", token |-> tok]

\* The tokens a client presents: a string that is no token, the token of a
\* stored user (fresh, after its expiry, or altered after it was issued), the
\* token the first user was given at registration (its role claim is the role
\* of a new user, whatever the stored role has become since), and a signed
\* token whose userId is not stored.
Presented(table) ==
  {Malformed}
    \cup {generateToken(findOneById(table, id)) : id \in DOMAIN table}
    \cup {[generateToken(findOneById(table, id)) EXCEPT !.expired = TRUE] :
            id \in DOMAIN table \cap {1}}
    \cup {[generateToken(findOneById(table, id)) EXCEPT !.signed = FALSE] :
            id \in DOMAIN table \cap {1}}
    \cup {[generateToken(findOneById(table, id)) EXCEPT !.role = "user"] :
            id \in DOMAIN table \cap {1}}
    \cup {Token(MaxUsers + 1, Email(1, FALSE), "user", TRUE, FALSE)}

Headers(table) == {NoHeader, Basic} \cup {Bearer(tok) : tok \in Presented(table)}

\* What a header is, whatever the middleware makes of it: "missing", "scheme"
\* (it does not start with 'Bearer '), "malformed" or "expired" (an invalid
\* token), or "signed" (a token of this server that has not expired).
Credential(header) ==
  IF header.scheme = "none" THEN "missing"
  ELSE IF header.scheme # "Bearer" THEN "scheme"
  ELSE IF ~header.token.signed THEN "malformed"
  ELSE IF header.token.expired THEN "expired"
  ELSE "signed"

\* What the authentication middleware decides: the status and message it
\* answers with, or status 0 and the user it attaches to the request.
Rejected(status, message) == [status |-> status, message |-> message, user |-> NullUser]
Attached(u) == [status |-> 0, message |-> NoMessage, user |-> u]

\* Mutant of createAuthMiddleware: the decoded payload's role goes to req.user.
createAuthMiddlewareTrustToken(header, table) ==
  IF header.scheme # "Bearer" THEN Rejected(401, NoTokenProvided)
  ELSE IF ~jwtVerify(header.token) THEN Rejected(401, InvalidOrExpiredToken)
  ELSE IF findOneById(table, header.token.userId).id = 0 THEN Rejected(401, UserNotFound)
  ELSE Attached([findOneById(table, header.token.userId) EXCEPT !.role = header.token.role])

\* createAuthMiddleware
createAuthMiddleware(header, table) ==
  IF header.scheme # "Bearer" THEN Rejected(401, NoTokenProvided)
  ELSE IF ~jwtVerify(header.token) THEN Rejected(401, InvalidOrExpiredToken)
  ELSE IF findOneById(table, header.token.userId).id = 0 THEN Rejected(401, UserNotFound)
  ELSE Attached(findOneById(table, header.token.userId))

\* req.user's role, "none" when no user is attached.
Identities == {"none", "user", "admin"}
Identity(gate) == gate.user.role
\* Mutant of Authenticated: a request without a user goes on.
AuthenticatedAlways(ident) == TRUE

Authenticated(ident) == ident # "none"

\* Mutant of adminOnly: every authenticated user passes.
adminOnlyAuthenticated(user) == IF user = "none" THEN 401 ELSE 0

\* adminOnly: the status it answers with, 0 when it calls next()
adminOnly(user) ==
  IF user = "none" THEN 401
  ELSE IF user # "admin" THEN 403
  ELSE 0

\* The routes registered with adminOnly.
AdminRoutes == {"delete", "restock"}

\* --------------------------------------------------------------- requests
Ops == {"create", "get", "update", "delete", "purchase", "restock", "reseed"}

\* body.quantity: absent, a JSON number, or a string of digits
Bodies ==
  {Undefined} \cup {Num(n) : n \in (-1)..MaxAmt} \cup {Str(n) : n \in 1..MaxAmt}

BodiesOf(op) == IF op \in {"get", "delete", "reseed"} THEN {Undefined} ELSE Bodies
PathsOf(op) == IF op \in {"create", "reseed"} THEN {0} ELSE PathIds

\* sweet is the entity as findById returned it; data is the entity of the
\* response; by is the layer that answered ("auth", "validation" or "service");
\* user is the role of req.user on the routes whose chain reads it, those with
\* adminOnly ("none" elsewhere: no route handler reads req.user). cred is
\* history: what the Authorization header of the request was. On the routes
\* with adminOnly, claim is the role claim of the token the request presented
\* and stored the role the users table held for the token's userId when the
\* request arrived ("none" without a signed token or a stored user).
\* Two fields are history, not program state:
\*   wrote  the quantity the table held for the sweet right after the request
\*          saved it, -1 while the request has written nothing;
\*   raced  for a purchase that has loaded its sweet, the largest amount that
\*          another purchase that had loaded the same quantity has committed
\*          since, and -1 once any other write to the sweet came between;
\*   gone   TRUE once a delete has removed the sweet the request had loaded.
IdleReq ==
  [pc |-> "idle", op |-> "none", id |-> 0, body |-> Undefined,
   sweet |-> NoEntity, status |-> 0, message |-> NoMessage, errors |-> FALSE,
   data |-> NoEntity, by |-> "none", user |-> "none", cred |-> "none",
   claim |-> "none", stored |-> "none", wrote |-> -1, raced |-> 0, gone |-> FALSE]

\* res.status(status).json({success, message, errors, data})
Respond(q, by, status, message, errors, data) ==
  [q EXCEPT !.pc = "done", !.by = by, !.status = status, !.message = message,
            !.errors = errors, !.data = data]

\* The request has saved its entity: wrote is the quantity the table then holds.
Wrote(q, table, id) == [q EXCEPT !.id = id, !.wrote = table[id].quantity]

\* Mutant of PurchaseQuantity: req.body.quantity || 0.
PurchaseQuantityOrZero(body) == JsOr(body, Num(0))

\* const quantity = req.body.quantity || 1
PurchaseQuantity(body) == JsOr(body, Num(1))

Max(a, b) == IF a >= b THEN a ELSE b

\* The requests that hold a loaded copy of sweet id learn of a write to it.
MarkRivals(rq, r, id, amount) ==
  [s \in Slots |->
     IF s # r /\ rq[s].pc = "loaded" /\ rq[s].id = id /\ rq[s].op = "purchase"
     THEN [rq[s] EXCEPT !.raced =
             IF amount > 0 /\ rq[s].raced >= 0 /\ rq[s].sweet = rq[r].sweet
             THEN Max(rq[s].raced, amount) ELSE -1]
     ELSE rq[s]]

\* The requests that hold a loaded copy of sweet id learn that a delete removed
\* it.
MarkGone(rq, r, id) ==
  [s \in Slots |->
     IF s # r /\ rq[s].pc = "loaded" /\ rq[s].id = id /\ rq[s].sweet.found
     THEN [rq[s] EXCEPT !.gone = TRUE]
     ELSE rq[s]]

\* A write to every sweet at once (the table is cleared).
MarkAllRivals(rq, r) ==
  [s \in Slots |->
     IF s # r /\ rq[s].pc = "loaded" /\ rq[s].op = "purchase"
     THEN [rq[s] EXCEPT !.raced = -1]
     ELSE rq[s]]

\* The quantities of sweetsData, the sample sweets.
sweetsData == <<80, 150, 100, 50, 100, 100, 100, 75, 10, 8, 60, 25>>

\* The sample sweets a reseed inserts here: the first MaxSeed of those whose
\* quantity the cap on stored quantities admits.
Fits(qty) == qty <= MaxQty
Sample == SubSeq(SelectSeq(sweetsData, Fits), 1, MaxSeed)

\* A response is being sent: no other request runs in that turn.
Answered == \E s \in Slots : reqs[s].pc = "done"

CreatesInFlight == Cardinality({s \in Slots : reqs[s].pc = "route" /\ reqs[s].op = "create"})

\* A request arrives and passes router.use(authMiddleware), then the route's
\* adminOnly when it has one.
AuthMiddleware(r) ==
  /\ ~Answered
  /\ reqs[r].pc = "idle"
  /\ \E op \in Ops, header \in Headers(users) :
     \E id \in PathsOf(op), body \in BodiesOf(op) :
       LET gate == createAuthMiddleware(header, users)
           ident == Identity(gate)
           gated == op \in AdminRoutes /\ Credential(header) = "signed"
           q == [IdleReq EXCEPT !.op = op, !.id = id, !.body = body,
                                !.cred = Credential(header),
                                !.user = IF op \in AdminRoutes THEN ident ELSE "none",
                                !.claim = IF gated THEN header.token.role ELSE "none",
                                !.stored = IF gated
                                           THEN findOneById(users, header.token.userId).role
                                           ELSE "none"]
       IN
       /\ op = "create" => nextId + CreatesInFlight <= MaxSweets
       /\ reqs' = [reqs EXCEPT ![r] =
            IF ~Authenticated(ident)
            THEN Respond(q, "auth", gate.status, gate.message, FALSE, NoEntity)
            ELSE IF op \in AdminRoutes /\ adminOnly(ident) # 0
            THEN Respond(q, "auth", adminOnly(ident),
                         IF adminOnly(ident) = 401 THEN AuthenticationRequired
                         ELSE AdminAccessRequired, FALSE, NoEntity)
            ELSE [q EXCEPT !.pc = "route"]]
  /\ UNCHANGED <<sweets, nextId, authVars, serviceVars>>

\* The validation chain of the route.
Valid(op, body) ==
  CASE op = "create" -> createSweetValidation(body)
    [] op = "update" -> updateSweetValidation(body)
    [] op = "purchase" -> purchaseValidation(body)
    [] op = "restock" -> restockValidation(body)
    [] OTHER -> TRUE

\* The quantity the service call would write, for the cap on stored quantities.
WithinCap(q) ==
  q.op = "restock" /\ q.id \in DOMAIN sweets
    => ColumnInteger(JsAdd(Num(sweets[q.id].quantity), q.body)) <= MaxQty

\* The route handler up to the resolution of its first repository call:
\* validationResult, then create's save, delete's delete, or findById.
Handler(r) ==
  LET q == reqs[r] IN
  /\ ~Answered
  /\ q.pc = "route"
  /\ Valid(q.op, q.body) => WithinCap(q)
  /\ UNCHANGED <<authVars, serviceVars>>
  /\ IF ~Valid(q.op, q.body)
     THEN /\ reqs' = [reqs EXCEPT ![r] = Respond(q, "validation", 400, NoMessage, TRUE, NoEntity)]
          /\ UNCHANGED <<sweets, nextId>>
     ELSE IF q.op = "get"
     THEN /\ reqs' = [reqs EXCEPT ![r] =
               IF findById(q.id).found
               THEN Respond(q, "service", 200, NoMessage, FALSE, findById(q.id))
               ELSE Respond(q, "service", 404, SweetNotFound, FALSE, NoEntity)]
          /\ UNCHANGED <<sweets, nextId>>
     ELSE IF q.op = "reseed"
     THEN /\ sweets' = <<>>
          /\ reqs' = [MarkAllRivals(reqs, r) EXCEPT ![r] = [q EXCEPT !.pc = "loaded"]]
          /\ UNCHANGED nextId
     ELSE IF q.op = "create"
     THEN /\ sweets' = Save(sweets, nextId, Entity(q.body))
          /\ nextId' = nextId + 1
          /\ reqs' = [reqs EXCEPT ![r] =
               Respond(Wrote(q, sweets', nextId), "service", 201, NoMessage, FALSE, Entity(q.body))]
     ELSE IF q.op = "delete"
     THEN /\ sweets' = Delete(sweets, q.id)
          /\ reqs' = [MarkGone(MarkRivals(reqs, r, q.id, 0), r, q.id) EXCEPT ![r] =
               IF q.id \in DOMAIN sweets
               THEN Respond(q, "service", 200, NoMessage, FALSE, NoEntity)
               ELSE Respond(q, "service", 404, SweetNotFound, FALSE, NoEntity)]
          /\ UNCHANGED nextId
     ELSE /\ reqs' = [reqs EXCEPT ![r] = [q EXCEPT !.pc = "loaded", !.sweet = findById(q.id)]]
          /\ UNCHANGED <<sweets, nextId>>

\* What the service call does with the loaded sweet: a thrown error, or the
\* entity it saves.
Service(q) ==
  CASE q.op = "purchase" -> ServicePurchase(q.sweet, PurchaseQuantity(q.body))
    [] q.op = "restock" -> ServiceRestock(q.sweet, q.body)
    [] OTHER -> Ok(Assign(q.sweet, q.body))

\* The sample sweets a reseed still has room for under the cap on sweets ever
\* created.
Min(a, b) == IF a <= b THEN a ELSE b
Seeded == SubSeq(Sample, 1, Min(Len(Sample), Max(0, MaxSweets + 1 - nextId - CreatesInFlight)))

\* repository.save of new entities: each gets the next generated key.
Insert(table, first, qtys) ==
  [i \in (DOMAIN table) \cup (first..(first + Len(qtys) - 1)) |->
     IF i \in DOMAIN table THEN table[i] ELSE [quantity |-> qtys[i - first + 1]]]

\* The continuation after the first repository call: for purchase, restock and
\* update the checks, the mutation of the loaded entity, repository.save and the
\* response; for reseed the saves of the sample sweets and the response.
Continue(r) ==
  LET q == reqs[r]
      res == Service(q)
  IN
  /\ ~Answered
  /\ q.pc = "loaded"
  /\ UNCHANGED <<authVars, serviceVars>>
  /\ IF q.op = "reseed"
     THEN /\ sweets' = Insert(sweets, nextId, Seeded)
          /\ nextId' = nextId + Len(Seeded)
          /\ reqs' = [MarkAllRivals(reqs, r) EXCEPT ![r] =
               Respond(q, "service", 200, NoMessage, FALSE, NoEntity)]
     ELSE IF q.op = "update" /\ ~q.sweet.found
     THEN /\ reqs' = [reqs EXCEPT ![r] = Respond(q, "service", 404, SweetNotFound, FALSE, NoEntity)]
          /\ UNCHANGED <<sweets, nextId>>
     ELSE IF res.err # NoMessage
     THEN /\ reqs' = [reqs EXCEPT ![r] = Respond(q, "service", ErrorStatus(res.err), res.err, FALSE, NoEntity)]
          /\ UNCHANGED <<sweets, nextId>>
     ELSE /\ sweets' = Save(sweets, q.id, res.sweet)
          /\ reqs' = [MarkRivals(reqs, r, q.id,
                         IF q.op = "purchase" THEN PurchaseQuantity(q.body).v ELSE 0)
                       EXCEPT ![r] = Respond(Wrote(q, sweets', q.id), "service", 200, NoMessage, FALSE, res.sweet)]
          /\ UNCHANGED nextId

\* The response is sent in the turn that computed it, before any other request
\* runs; the slot is then free for the next request.
Retire(r) ==
  /\ reqs[r].pc = "done"
  /\ reqs' = [reqs EXCEPT ![r] = IdleReq]
  /\ UNCHANGED <<sweets, nextId, authVars, serviceVars>>

\* ------------------------------------------------------ /api/auth requests
\* Mutant of normalizeEmail: the address is kept as it was written.
normalizeEmailKeepCase(e) == e

\* normalizeEmail of express-validator lower-cases the address.
normalizeEmail(e) == [e EXCEPT !.upper = FALSE]
isEmail(e) == e.name # 0

\* The body of a register or login request; role "none" is a body without a
\* role field, username 0 one that is too short.
Body(email, username, password, role) ==
  [email |-> email, username |-> username, password |-> password, role |-> role]
NoBody == Body(Email(0, FALSE), 0, Plain(0), "none")

Emails == {Email(0, FALSE)} \cup {Email(n, u) : n \in 1..MaxNames, u \in BOOLEAN}
Usernames == 0..MaxNames
Passwords == {Plain(p) : p \in 0..MaxNames}
BodyRoles == {"none", "admin"}

registerValidation(body) ==
  isEmail(body.email) /\ body.username # 0 /\ body.password.of # 0
loginValidation(body) == isEmail(body.email) /\ body.password.of # 0

\* The body after the sanitizers of the chain have run.
Sanitized(body) == [body EXCEPT !.email = normalizeEmail(body.email)]

\* Mutant of RegisterData: the role of the body is passed to the service.
RegisterDataWithRole(body) == body

\* const { email, username, password } = req.body; register({ email, username, password })
RegisterData(body) == [body EXCEPT !.role = "none"]

\* userRepository.create of AuthService.register: role: data.role || UserRole.USER
NewUser(id, data) ==
  [id |-> id, email |-> data.email, username |-> data.username,
   password |-> data.password, role |-> IF data.role = "none" THEN "user" ELSE data.role]

\* Mutant of IncludesAlreadyExists: the search is for 'Already exists'.
IncludesAlreadyExistsCapital(m) ==
  \E i \in 1..(Len(m) - 1) : m[i] = "Already" /\ m[i + 1] = "exists"

IncludesAlreadyExists(m) ==
  \E i \in 1..(Len(m) - 1) : m[i] = "already" /\ m[i + 1] = "exists"

\* statusCode = message.includes('already exists') ? 409 : 500
RegisterStatus(m) == IF IncludesAlreadyExists(m) THEN 409 ELSE 500

\* The unique index on users.email
EmailTaken(table, email) == \E id \in DOMAIN table : table[id].email = email

\* The data of a response without a user.
NoData == [id |-> 0]

\* user is the entity findOne returned; sent is the email as the client wrote it
\* and created the id of the user the request inserted (0 for none), both
\* history.
IdleAuthReq ==
  [pc |-> "idle", op |-> "none", body |-> NoBody, header |-> NoHeader,
   user |-> NullUser, status |-> 0, message |-> NoMessage, errors |-> FALSE,
   data |-> NoData, token |-> NoToken, sent |-> Email(0, FALSE), created |-> 0]

\* res.status(status).json({ success, message, errors, data: { user, token } })
AuthRespond(q, status, message, errors, data, token) ==
  [q EXCEPT !.pc = "done", !.status = status, !.message = message,
            !.errors = errors, !.data = data, !.token = token]

AuthAnswered == \E s \in Slots : areqs[s].pc = "done"

\* The registrations that have found their email free and not saved yet.
RegistersInFlight ==
  Cardinality({s \in Slots : areqs[s].pc = "checked" /\ areqs[s].user.id = 0})

\* POST /api/auth/register up to the resolution of register's findOne.
RegisterRoute(r) ==
  /\ ~AuthAnswered
  /\ areqs[r].pc = "idle"
  /\ \E email \in Emails, username \in Usernames, password \in Passwords, role \in BodyRoles :
       LET body == Body(email, username, password, role)
           q == [IdleAuthReq EXCEPT !.op = "register", !.body = Sanitized(body), !.sent = email]
           existingUser == findOneByEmail(users, RegisterData(Sanitized(body)).email)
       IN
       /\ registerValidation(body) /\ existingUser.id = 0
            => nextUserId + RegistersInFlight <= MaxUsers
       /\ areqs' = [areqs EXCEPT ![r] =
            IF ~registerValidation(body)
            THEN AuthRespond(q, 400, NoMessage, TRUE, NoData, NoToken)
            ELSE [q EXCEPT !.pc = "checked", !.user = existingUser]]
  /\ UNCHANGED <<users, nextUserId, catalogVars, serviceVars>>

\* AuthService.register after findOne, and the response of the route.
RegisterSave(r) ==
  LET q == areqs[r]
      user == hashPassword(NewUser(nextUserId, RegisterData(q.body)))
  IN
  /\ ~AuthAnswered
  /\ q.pc = "checked"
  /\ UNCHANGED <<catalogVars, serviceVars>>
  /\ IF q.user.id # 0
     THEN /\ areqs' = [areqs EXCEPT ![r] =
               AuthRespond(q, RegisterStatus(UserAlreadyExists), UserAlreadyExists, FALSE, NoData, NoToken)]
          /\ UNCHANGED <<users, nextUserId>>
     ELSE IF EmailTaken(users, user.email)
     THEN /\ areqs' = [areqs EXCEPT ![r] =
               AuthRespond(q, RegisterStatus(UniqueConstraintFailed), UniqueConstraintFailed, FALSE, NoData, NoToken)]
          /\ UNCHANGED <<users, nextUserId>>
     ELSE /\ users' = [id \in (DOMAIN users) \cup {nextUserId} |->
                         IF id = nextUserId THEN UserRow(user) ELSE users[id]]
          /\ nextUserId' = nextUserId + 1
          /\ areqs' = [areqs EXCEPT ![r] =
               AuthRespond([q EXCEPT !.created = user.id], 201, UserRegistered, FALSE,
                           toJSON(user), generateToken(user))]

\* Mutant of login: an unknown email is told apart from a wrong password.
loginTellsUnknownEmail(user, data) ==
  IF user.id = 0 THEN [err |-> UserNotFound, user |-> NullUser]
  ELSE IF ~comparePassword(user, data.password) THEN [err |-> InvalidEmailOrPassword, user |-> NullUser]
  ELSE [err |-> NoMessage, user |-> user]

\* AuthService.login(data), from the resolution of findOne on
login(user, data) ==
  IF user.id = 0 THEN [err |-> InvalidEmailOrPassword, user |-> NullUser]
  ELSE IF ~comparePassword(user, data.password) THEN [err |-> InvalidEmailOrPassword, user |-> NullUser]
  ELSE [err |-> NoMessage, user |-> user]

\* POST /api/auth/login
LoginRoute(r) ==
  /\ ~AuthAnswered
  /\ areqs[r].pc = "idle"
  /\ \E email \in Emails, password \in Passwords :
       LET body == Body(email, 0, password, "none")
           q == [IdleAuthReq EXCEPT !.op = "login", !.body = Sanitized(body), !.sent = email]
           user == findOneByEmail(users, Sanitized(body).email)
           res == login(user, Sanitized(body))
       IN
       areqs' = [areqs EXCEPT ![r] =
         IF ~loginValidation(body)
         THEN AuthRespond(q, 400, NoMessage, TRUE, NoData, NoToken)
         ELSE IF res.err # NoMessage
         THEN AuthRespond([q EXCEPT !.user = user], 401, res.err, FALSE, NoData, NoToken)
         ELSE AuthRespond([q EXCEPT !.user = user], 200, LoginSuccessful, FALSE,
                          toJSON(res.user), generateToken(res.user))]
  /\ UNCHANGED <<users, nextUserId, catalogVars, serviceVars>>

\* GET /api/auth/me behind the authentication middleware
MeRoute(r) ==
  /\ ~AuthAnswered
  /\ areqs[r].pc = "idle"
  /\ \E header \in Headers(users) :
       LET q == [IdleAuthReq EXCEPT !.op = "me", !.header = header]
           gate == createAuthMiddleware(header, users)
       IN
       areqs' = [areqs EXCEPT ![r] =
         IF gate.status # 0
         THEN AuthRespond(q, gate.status, gate.message, FALSE, NoData, NoToken)
         ELSE AuthRespond([q EXCEPT !.user = gate.user], 200, NoMessage, FALSE,
                          toJSON(gate.user), NoToken)]
  /\ UNCHANGED <<users, nextUserId, catalogVars, serviceVars>>

AuthRetire(r) ==
  /\ areqs[r].pc = "done"
  /\ areqs' = [areqs EXCEPT ![r] = IdleAuthReq]
  /\ UNCHANGED <<users, nextUserId, catalogVars, serviceVars>>

\* ------------------------------------------- the service, call by call
\* A text is a sequence of characters; a field of a query or of a body is a
\* text, a word (a category) or a number, or is absent.
Text(s) == [t |-> "string", v |-> s]
NoText == [t |-> "undefined", v |-> <<>>]
Word(w) == [t |-> "string", v |-> w]
NoWord == [t |-> "undefined", v |-> ""]

Strings(alphabet, n) == UNION {[1..k -> alphabet] : k \in 0..n}

\* Object.values(SweetCategory)
SweetCategory == {"chocolate", "candy", "cookie", "cake", "pastry", "ice_cream", "other"}

\* A row of the sweets table; ids stand for the generated uuids.
Row(name, category, price, quantity, updatedAt) ==
  [name |-> name, category |-> category, price |-> price, quantity |-> quantity,
   updatedAt |-> updatedAt]
Tables(R) == UNION {[1..n -> R] : n \in 0..MaxRows}

\* The Sweet entity of a row, and the row of an entity; id 0 is findById's null.
NoSweet == [id |-> 0, name |-> <<>>, category |-> "", price |-> 0, quantity |-> 0, updatedAt |-> 0]
SweetOf(id, row) ==
  [id |-> id, name |-> row.name, category |-> row.category, price |-> row.price,
   quantity |-> row.quantity, updatedAt |-> row.updatedAt]
RowOf(e) == Row(e.name, e.category, e.price, e.quantity, e.updatedAt)

\* LIKE of SQLite: % stands for any run of characters, _ for any single one,
\* and the letters of ASCII match whatever their case.
Lower(c) == CASE c = "A" -> "a" [] c = "B" -> "b" [] OTHER -> c

RECURSIVE Like(_, _)
Like(text, pattern) ==
  IF pattern = <<>> THEN text = <<>>
  ELSE IF Head(pattern) = "%"
  THEN \E k \in 0..Len(text) : Like(SubSeq(text, k + 1, Len(text)), Tail(pattern))
  ELSE /\ text # <<>>
       /\ Head(pattern) = "_" \/ Lower(Head(pattern)) = Lower(Head(text))
       /\ Like(Tail(text), Tail(pattern))

\* The query of GET /search: name, category, minPrice and maxPrice, each a
\* string or absent.
Query(name, category, minPrice, maxPrice) ==
  [name |-> name, category |-> category, minPrice |-> minPrice, maxPrice |-> maxPrice]

\* isFloat({ min }) on a query string
IsFloat(x, min) == x.t = "string" /\ x.v >= min

searchSweetValidation(query) ==
  /\ query.category.t = "undefined" \/ query.category.v \in SweetCategory
  /\ query.minPrice.t = "undefined" \/ IsFloat(query.minPrice, 0)
  /\ query.maxPrice.t = "undefined" \/ IsFloat(query.maxPrice, 0)

\* minPrice ? parseFloat(minPrice) : undefined -- a query string is falsy only
\* when it is empty, and the strings here are the digits of a number
ParsePrice(x) == IF x.t = "string" THEN Num(x.v) ELSE Undefined

\* The SearchParams the route hands to the service.
SearchParams(query) ==
  Query(query.name, query.category, ParsePrice(query.minPrice), ParsePrice(query.maxPrice))

\* The find operators of the price condition.
NoCondition == [op |-> "none", lo |-> 0, hi |-> 0]
Between(lo, hi) == [op |-> "Between", lo |-> lo, hi |-> hi]
MoreThanOrEqual(lo) == [op |-> "MoreThanOrEqual", lo |-> lo, hi |-> 0]
LessThanOrEqual(hi) == [op |-> "LessThanOrEqual", lo |-> 0, hi |-> hi]

\* Mutant of PriceHolds: the bounds are exclusive.
PriceHoldsExclusive(cond, price) ==
  CASE cond.op = "Between" -> cond.lo < price /\ price < cond.hi
    [] cond.op = "MoreThanOrEqual" -> cond.lo < price
    [] cond.op = "LessThanOrEqual" -> price < cond.hi
    [] OTHER -> TRUE

PriceHolds(cond, price) ==
  CASE cond.op = "Between" -> cond.lo <= price /\ price <= cond.hi
    [] cond.op = "MoreThanOrEqual" -> cond.lo <= price
    [] cond.op = "LessThanOrEqual" -> price <= cond.hi
    [] OTHER -> TRUE

\* The conditions SweetService.search builds: if (params.name) and
\* if (params.category) skip an absent and an empty string, the price tests
\* are !== undefined.
Conditions(params) ==
  [name |-> IF params.name.t # "undefined" /\ params.name.v # <<>>
            THEN Text(<<"%">> \o params.name.v \o <<"%">>) ELSE NoText,
   category |-> IF params.category.t # "undefined" /\ params.category.v # ""
                THEN params.category ELSE NoWord,
   price |-> IF params.minPrice.t # "undefined" /\ params.maxPrice.t # "undefined"
             THEN Between(params.minPrice.v, params.maxPrice.v)
             ELSE IF params.minPrice.t # "undefined" THEN MoreThanOrEqual(params.minPrice.v)
             ELSE IF params.maxPrice.t # "undefined" THEN LessThanOrEqual(params.maxPrice.v)
             ELSE NoCondition]

\* sweetRepository.find({ where: conditions }): the ids of the rows selected.
find(table, where) ==
  {id \in DOMAIN table :
     /\ where.name.t = "undefined" \/ Like(table[id].name, where.name.v)
     /\ where.category.t = "undefined" \/ table[id].category = where.category.v
     /\ PriceHolds(where.price, table[id].price)}

\* SweetService.search
search(table, params) == find(table, Conditions(params))

\* The body of PUT /:id: the fields of UpdateSweetData the model keeps, and an
\* id field, each absent or present.
Changes(name, category, price, quantity, id) ==
  [name |-> name, category |-> category, price |-> price, quantity |-> quantity, id |-> id]

\* updateSweetValidation on the whole body: name isLength({ min: 1 }),
\* category isIn, price isFloat({ min: 0.01 }), quantity isInt({ min: 0 }),
\* each optional; no chain looks at another field of the body.
updateSweetChains(data) ==
  /\ data.name.t = "undefined" \/ data.name.v # <<>>
  /\ data.category.t = "undefined" \/ data.category.v \in SweetCategory
  /\ data.price.t = "undefined" \/ data.price.v >= 1
  /\ updateSweetValidation(data.quantity)

\* Mutant of ObjectAssign: the entity is built from the body alone, and a column
\* the body leaves out takes its default.
ObjectReplace(e, data) ==
  [id |-> IF data.id.t = "undefined" THEN e.id ELSE data.id.v,
   name |-> data.name.v,
   category |-> IF data.category.t = "undefined" THEN "other" ELSE data.category.v,
   price |-> data.price.v,
   quantity |-> data.quantity.v,
   updatedAt |-> e.updatedAt]

\* Object.assign(sweet, data): every field the body has is copied onto the
\* entity, its id included.
ObjectAssign(e, data) ==
  [id |-> IF data.id.t = "undefined" THEN e.id ELSE data.id.v,
   name |-> IF data.name.t = "undefined" THEN e.name ELSE data.name.v,
   category |-> IF data.category.t = "undefined" THEN e.category ELSE data.category.v,
   price |-> IF data.price.t = "undefined" THEN e.price ELSE data.price.v,
   quantity |-> IF data.quantity.t = "undefined" THEN e.quantity ELSE data.quantity.v,
   updatedAt |-> e.updatedAt]

\* The columns save compares with the stored row.
Columns(row) == <<row.name, row.category, row.price, row.quantity>>

\* sweetRepository.save(sweet): the row of the id the entity carries is updated
\* when a column differs, and @UpdateDateColumn then takes the time of the
\* write; an entity whose id is not stored is inserted as it is.
SaveSweet(table, e, now) ==
  IF e.id \in DOMAIN table
  THEN IF Columns(RowOf(e)) # Columns(table[e.id])
       THEN [table EXCEPT ![e.id] = [RowOf(e) EXCEPT !.updatedAt = now]]
       ELSE table
  ELSE [i \in (DOMAIN table) \cup {e.id} |-> IF i = e.id THEN RowOf(e) ELSE table[i]]

\* SweetService.update: the table it leaves and the entity it returns.
update(table, id, data, now) ==
  IF id \notin DOMAIN table
  THEN [table |-> table, sweet |-> NoSweet]
  ELSE LET e == ObjectAssign(SweetOf(id, table[id]), data)
           saved == SaveSweet(table, e, now)
       IN [table |-> saved, sweet |-> SweetOf(e.id, saved[e.id])]

\* n counts the calls made; before is the table the call found, found the ids
\* a search returned and data the entity an update returned.
NoCall ==
  [n |-> 0, op |-> "none", id |-> 0,
   query |-> Query(NoText, NoWord, Undefined, Undefined),
   body |-> Changes(NoText, NoWord, Undefined, Undefined, Undefined),
   before |-> <<>>, status |-> 0, found |-> {}, data |-> NoSweet]

\* The rows and the queries of the searches.
\* Names are written with the letters a and B, name filters with a, b and the
\* two wildcards of LIKE.
SearchRows ==
  {Row(name, category, price, 0, 0) :
     name \in Strings({"a", "B"}, MaxLen) \ {<<>>},
     category \in {"chocolate", "candy"}, price \in 1..MaxPrice}
Queries ==
  {Query(name, category, minPrice, maxPrice) :
     name \in {NoText} \cup {Text(s) : s \in Strings({"a", "b", "%", "_"}, MaxLen)},
     category \in {NoWord, Word("chocolate"), Word("fruit")},
     minPrice \in {Undefined} \cup {Str(n) : n \in {-1} \cup 1..MaxPrice},
     maxPrice \in {Undefined} \cup {Str(n) : n \in {-1} \cup 1..MaxPrice}}

\* GET /search
GetSearch ==
  /\ last.n < MaxCalls
  /\ \E query \in Queries :
       last' = [NoCall EXCEPT !.n = last.n + 1, !.op = "search", !.query = query,
                              !.before = rows,
                              !.status = IF searchSweetValidation(query) THEN 200 ELSE 400,
                              !.found = IF searchSweetValidation(query)
                                        THEN search(rows, SearchParams(query)) ELSE {}]
  /\ UNCHANGED <<rows, clock, catalogVars, authVars>>

\* The rows and the bodies of the updates.
UpdateRows ==
  {Row(name, "chocolate", price, quantity, 0) :
     name \in {<<"a">>, <<"B">>}, price \in 1..MaxPrice, quantity \in 0..1}
RowIds == 1..(MaxRows + 1)

\* PUT /:id with nothing else in flight
PutSweet ==
  /\ last.n < MaxCalls
  /\ \E id \in RowIds,
        name \in {NoText, Text(<<>>), Text(<<"B">>)},
        category \in {NoWord, Word("candy")},
        price \in {Undefined, Num(0), Num(MaxPrice)},
        quantity \in {Undefined, Num(-1), Num(1)},
        other \in {Undefined} \cup {Num(i) : i \in RowIds} :
       LET data == Changes(name, category, price, quantity, other)
           res == update(rows, id, data, clock)
           call == [NoCall EXCEPT !.n = last.n + 1, !.op = "update", !.id = id,
                                  !.body = data, !.before = rows]
       IN
       IF ~updateSweetChains(data)
       THEN /\ last' = [call EXCEPT !.status = 400]
            /\ UNCHANGED rows
       ELSE /\ rows' = res.table
            /\ last' = [call EXCEPT !.status = IF res.sweet.id = 0 THEN 404 ELSE 200,
                                    !.data = res.sweet]
  /\ UNCHANGED <<clock, catalogVars, authVars>>

\* A second passes.
Tick ==
  /\ clock < MaxClock
  /\ clock' = clock + 1
  /\ UNCHANGED <<rows, last, catalogVars, authVars>>

\* The shop with an empty catalog, one administrator and one customer
\* registered, and no request in flight.
Init ==
  /\ sweets = <<>>
  /\ nextId = 1
  /\ reqs = [s \in Slots |-> IdleReq]
  /\ users = Registered
  /\ nextUserId = MaxUsers + 1
  /\ areqs = [s \in Slots |-> IdleAuthReq]
  /\ rows = <<>>
  /\ clock = 0
  /\ last = NoCall

Next ==
  \E r \in Slots : AuthMiddleware(r) \/ Handler(r) \/ Continue(r) \/ Retire(r)

Spec == Init /\ [][Next]_vars

\* The shop while no administrator is registered: every identity a token
\* resolves to is a customer.
CustomerInit ==
  /\ sweets = <<>>
  /\ nextId = 1
  /\ reqs = [s \in Slots |-> IdleReq]
  /\ users = Customers
  /\ nextUserId = MaxUsers + 1
  /\ areqs = [s \in Slots |-> IdleAuthReq]
  /\ rows = <<>>
  /\ clock = 0
  /\ last = NoCall

CustomerSpec == CustomerInit /\ [][Next]_vars

\* The seed script, run against the database of the running server: the sweets
\* table is cleared and the sample sweets are inserted, then the first user of
\* the users table is made an administrator.
seed ==
  /\ ~Answered
  /\ sweets' = Insert(<<>>, nextId, Seeded)
  /\ nextId' = nextId + Len(Seeded)
  /\ reqs' = MarkAllRivals(reqs, 0)
  /\ users' = [id \in DOMAIN users |->
                IF id = 1 THEN [users[id] EXCEPT !.role = "admin"] ELSE users[id]]
  /\ UNCHANGED <<nextUserId, areqs, serviceVars>>

\* Every registered user is a customer until the seed script is run.
RoleSpec == CustomerInit /\ [][Next \/ seed]_vars

\* The search of a table of sweets, from every table of the bounds.
SearchInit ==
  /\ sweets = <<>>
  /\ nextId = 1
  /\ reqs = [s \in Slots |-> IdleReq]
  /\ users = Registered
  /\ nextUserId = MaxUsers + 1
  /\ areqs = [s \in Slots |-> IdleAuthReq]
  /\ rows \in Tables(SearchRows)
  /\ clock = 0
  /\ last = NoCall

SearchSpec == SearchInit /\ [][GetSearch]_vars

\* The update of a table of sweets, from every table of the bounds.
UpdateInit ==
  /\ sweets = <<>>
  /\ nextId = 1
  /\ reqs = [s \in Slots |-> IdleReq]
  /\ users = Registered
  /\ nextUserId = MaxUsers + 1
  /\ areqs = [s \in Slots |-> IdleAuthReq]
  /\ rows \in Tables(UpdateRows)
  /\ clock = 0
  /\ last = NoCall

UpdateNext == PutSweet \/ Tick
UpdateSpec == UpdateInit /\ [][UpdateNext]_vars

\* The authentication service from an empty users table.
AuthInit ==
  /\ sweets = <<>>
  /\ nextId = 1
  /\ reqs = [s \in Slots |-> IdleReq]
  /\ users = <<>>
  /\ nextUserId = 1
  /\ areqs = [s \in Slots |-> IdleAuthReq]
  /\ rows = <<>>
  /\ clock = 0
  /\ last = NoCall

AuthNext ==
  \E r \in Slots :
    RegisterRoute(r) \/ RegisterSave(r) \/ LoginRoute(r) \/ MeRoute(r) \/ AuthRetire(r)

AuthSpec == AuthInit /\ [][AuthNext]_vars

\* ================================================================= claims
\* The request of slot r has just been answered by the layer `by`.
Answers(r, op, by) ==
  reqs[r].pc = "done" /\ reqs[r].op = op /\ reqs[r].by = by

\* The amount a purchase or restock request asks for, and the quantity its
\* findById returned.
Asked(r) ==
  IF reqs[r].op = "purchase" THEN PurchaseQuantity(reqs[r].body).v ELSE reqs[r].body.v
Loaded(r) == reqs[r].sweet.quantity.v

\* C1: the stored quantity of every sweet is >= 0 in every reachable state,
\* whatever the interleaving of the requests on it.
C1_QuantityNonNegative ==
  \A id \in DOMAIN sweets : sweets[id].quantity >= 0

\* C1 witness: a purchase that interleaved with another purchase of the same
\* sweet has just emptied the stock.
C1_Witness ==
  \E r \in Slots :
    /\ Answers(r, "purchase", "service") /\ reqs[r].status = 200
    /\ reqs[r].raced > 0
    /\ reqs[r].id \in DOMAIN sweets /\ sweets[reqs[r].id].quantity = 0

\* C2: two concurrent purchases of the same sweet, which both loaded the
\* quantity n with no other write in between, never both succeed when their
\* amounts sum to more than n.
C2_NoOversell ==
  \A r \in Slots :
    Answers(r, "purchase", "service") /\ reqs[r].status = 200 /\ reqs[r].raced > 0
      => reqs[r].raced + Asked(r) <= Loaded(r)

\* C3: no update is lost: a purchase, restock or update that succeeds leaves the
\* quantity that the operation gives when applied to the quantity stored at the
\* moment it writes (so that the final quantity is the initial one, minus the
\* purchased amounts, plus the restocked ones).
C3_NoLostUpdate ==
  [][\A r \in Slots :
       /\ reqs[r].pc = "loaded" /\ reqs'[r].pc = "done" /\ reqs'[r].status = 200
       /\ reqs[r].id \in DOMAIN sweets
       => sweets'[reqs[r].id].quantity =
            ColumnInteger(Service([reqs[r] EXCEPT !.sweet = findById(reqs[r].id)]).sweet.quantity)
    ]_vars

\* C4: a purchase of q units of a sweet loaded with quantity n, 0 < q <= n,
\* succeeds, returns the sweet with quantity n - q and leaves n - q stored.
C4_PurchaseDecrements ==
  \A r \in Slots :
    /\ Answers(r, "purchase", "service") /\ reqs[r].sweet.found
    /\ 0 < Asked(r) /\ Asked(r) <= Loaded(r)
    => /\ reqs[r].status = 200
       /\ reqs[r].data = Entity(Num(Loaded(r) - Asked(r)))
       /\ reqs[r].wrote = Loaded(r) - Asked(r)
       /\ sweets[reqs[r].id].quantity = Loaded(r) - Asked(r)

\* C4 witness: a purchase of the largest amount has succeeded and left stock.
C4_Witness ==
  \E r \in Slots :
    /\ Answers(r, "purchase", "service") /\ reqs[r].status = 200
    /\ reqs[r].body = Num(MaxAmt)
    /\ reqs[r].wrote = Loaded(r) - MaxAmt /\ reqs[r].wrote > 0

\* C5: a purchase of q units of a sweet loaded with quantity n < q is answered
\* 400 'Insufficient stock' and writes nothing.
C5_InsufficientStock ==
  \A r \in Slots :
    /\ Answers(r, "purchase", "service") /\ reqs[r].sweet.found
    /\ Asked(r) > Loaded(r)
    => /\ reqs[r].status = 400
       /\ reqs[r].message = InsufficientStock
       /\ reqs[r].data = NoEntity
       /\ reqs[r].wrote = -1

\* C5 witness: a purchase of more than a non-empty stock was refused and the
\* stock is still there.
C5_Witness ==
  \E r \in Slots :
    /\ Answers(r, "purchase", "service") /\ reqs[r].sweet.found
    /\ Loaded(r) > 0 /\ Asked(r) > Loaded(r)
    /\ reqs[r].status = 400
    /\ reqs[r].id \in DOMAIN sweets /\ sweets[reqs[r].id].quantity = Loaded(r)

\* C6: a purchase whose amount is <= 0, on a stored sweet, is answered 400 and
\* writes nothing.
C6_PurchaseNotPositive ==
  \A r \in Slots :
    /\ reqs[r].pc = "done" /\ reqs[r].op = "purchase" /\ reqs[r].by # "auth"
    /\ reqs[r].body.t = "number" /\ reqs[r].body.v <= 0
    /\ reqs[r].id \in DOMAIN sweets
    => reqs[r].status = 400 /\ reqs[r].wrote = -1 /\ reqs[r].data = NoEntity

\* C6 witness: a purchase of 0 units of a stocked sweet was refused.
C6_Witness ==
  \E r \in Slots :
    /\ reqs[r].pc = "done" /\ reqs[r].op = "purchase" /\ reqs[r].status = 400
    /\ reqs[r].body = Num(0)
    /\ reqs[r].id \in DOMAIN sweets /\ sweets[reqs[r].id].quantity > 0

\* C7: a restock of q > 0 units of a sweet loaded with quantity n, by an admin,
\* succeeds and leaves n + q stored.
C7_RestockIncrements ==
  \A r \in Slots :
    /\ Answers(r, "restock", "service") /\ reqs[r].sweet.found
    /\ Asked(r) > 0
    => reqs[r].status = 200 /\ reqs[r].wrote = Loaded(r) + Asked(r)

\* C8: a restock whose amount is <= 0, zero included, on a stored sweet, is
\* refused by the validation with 400 and writes nothing.
C8_RestockNotPositive ==
  \A r \in Slots :
    /\ reqs[r].pc = "done" /\ reqs[r].op = "restock" /\ reqs[r].by # "auth"
    /\ reqs[r].body.t = "number" /\ reqs[r].body.v <= 0
    /\ reqs[r].id \in DOMAIN sweets
    => /\ reqs[r].status = 400 /\ reqs[r].errors
       /\ reqs[r].wrote = -1 /\ reqs[r].data = NoEntity

\* C8 witness: a restock of 0 units of a stored sweet was refused.
C8_Witness ==
  \E r \in Slots :
    /\ reqs[r].pc = "done" /\ reqs[r].op = "restock" /\ reqs[r].status = 400
    /\ reqs[r].body = Num(0)
    /\ reqs[r].id \in DOMAIN sweets

\* C9: a purchase or restock of a valid positive amount whose id matched no
\* stored sweet is answered 404 'Sweet not found' and writes nothing.
C9_NotFound ==
  \A r \in Slots :
    /\ Answers(r, "purchase", "service") \/ Answers(r, "restock", "service")
    /\ ~reqs[r].sweet.found
    => /\ reqs[r].status = 404
       /\ reqs[r].message = SweetNotFound
       /\ reqs[r].data = NoEntity
       /\ reqs[r].wrote = -1

\* C9 witness: a restock of an id that is not stored was refused while another
\* sweet is stored, and no row was made for that id.
C9_Witness ==
  \E r \in Slots :
    /\ Answers(r, "restock", "service") /\ ~reqs[r].sweet.found
    /\ reqs[r].status = 404
    /\ DOMAIN sweets # {} /\ reqs[r].id \notin DOMAIN sweets

\* C10: a purchase whose body names no quantity, of a sweet loaded with
\* quantity n >= 1, succeeds and leaves n - 1 stored.
C10_DefaultOne ==
  \A r \in Slots :
    /\ Answers(r, "purchase", "service") /\ reqs[r].sweet.found
    /\ reqs[r].body = Undefined /\ Loaded(r) >= 1
    => /\ reqs[r].status = 200
       /\ reqs[r].data = Entity(Num(Loaded(r) - 1))
       /\ reqs[r].wrote = Loaded(r) - 1
       /\ sweets[reqs[r].id].quantity = Loaded(r) - 1

\* C10 witness: a purchase without a quantity took one unit of several.
C10_Witness ==
  \E r \in Slots :
    /\ Answers(r, "purchase", "service") /\ reqs[r].status = 200
    /\ reqs[r].body = Undefined
    /\ Loaded(r) > 1 /\ reqs[r].wrote = Loaded(r) - 1

\* C11: a delete or restock request that carries the valid token of a user
\* whose role is not admin is answered 403 'Admin access required' by the
\* access-control gate, whatever its body, and the sweets table is left as it
\* was.
C11_NonAdminForbidden ==
  [][\A r \in Slots :
       /\ reqs'[r] # reqs[r]
       /\ reqs'[r].op \in AdminRoutes /\ reqs'[r].user = "user"
       => /\ reqs'[r].pc = "done" /\ reqs'[r].by = "auth"
          /\ reqs'[r].status = 403 /\ reqs'[r].message = AdminAccessRequired
          /\ sweets' = sweets
    ]_vars

\* C11 witness: a customer's restock of a stored sweet with the invalid
\* quantity 0 has been answered 403, not 400.
C11_Witness ==
  \E r \in Slots :
    /\ reqs[r].pc = "done" /\ reqs[r].op = "restock" /\ reqs[r].user = "user"
    /\ reqs[r].body = Num(0) /\ reqs[r].status = 403
    /\ reqs[r].id \in DOMAIN sweets

\* C12: a request to a /api/sweets endpoint whose Authorization header is
\* missing, does not start with 'Bearer ', or carries an invalid (malformed or
\* expired) token is answered 401 by the authentication middleware, before any
\* catalog operation runs: the sweets table is left as it was.
C12_Unauthenticated ==
  [][\A r \in Slots :
       /\ reqs'[r] # reqs[r]
       /\ reqs'[r].cred \in {"missing", "scheme", "malformed", "expired"}
       => /\ reqs'[r].pc = "done" /\ reqs'[r].by = "auth"
          /\ reqs'[r].status = 401
          /\ sweets' = sweets /\ nextId' = nextId
    ]_vars

\* C12 witness: a reseed that carried an expired token has been answered 401
\* and the stored sweet is still there.
C12_Witness ==
  \E r \in Slots :
    /\ reqs[r].pc = "done" /\ reqs[r].op = "reseed" /\ reqs[r].cred = "expired"
    /\ reqs[r].status = 401 /\ reqs[r].message = InvalidOrExpiredToken
    /\ DOMAIN sweets # {}

\* No user of the users table is an administrator.
NoAdmin == \A id \in DOMAIN users : users[id].role # "admin"

\* C13: a stored sweet is removed only by a request of an administrator: while
\* no administrator is registered, so that every request is made by a non-admin
\* identity, no step removes a sweet from the table.
C13_OnlyAdminRemoves ==
  [][NoAdmin => DOMAIN sweets \subseteq DOMAIN sweets']_vars

\* C14: a register whose email is that of a user the service finds stored is
\* answered 409 'User with this email already exists', with no user and no
\* token in the response; it creates no user and leaves the users table, the
\* existing user's username, digest and role included, as it was.
C14_DuplicateEmail ==
  [][\A r \in Slots :
       /\ areqs[r].pc = "checked" /\ areqs[r].user.id # 0
       /\ areqs'[r] # areqs[r]
       => /\ areqs'[r].pc = "done" /\ areqs'[r].status = 409
          /\ areqs'[r].message = UserAlreadyExists
          /\ areqs'[r].data = NoData /\ areqs'[r].token = NoToken
          /\ areqs'[r].created = 0
          /\ users' = users /\ nextUserId' = nextUserId
    ]_vars

\* C14 witness: a register with the email of a stored user, under another
\* username and another password, has been answered 409 and the stored user
\* still has its own.
C14_Witness ==
  \E r \in Slots :
    /\ areqs[r].pc = "done" /\ areqs[r].op = "register" /\ areqs[r].status = 409
    /\ areqs[r].user.id \in DOMAIN users
    /\ areqs[r].body.username # users[areqs[r].user.id].username
    /\ areqs[r].body.password.of # users[areqs[r].user.id].password.of
    /\ users[areqs[r].user.id] = UserRow(areqs[r].user)

\* C15: under any interleaving of register requests at most one user is stored
\* per email, and every register that passed the validation and created no
\* user, the loser of two concurrent registrations of one new email included,
\* is answered 409.
C15_RegisterConflict ==
  /\ \A i, j \in DOMAIN users : users[i].email = users[j].email => i = j
  /\ \A r \in Slots :
       /\ areqs[r].pc = "done" /\ areqs[r].op = "register"
       /\ ~areqs[r].errors /\ areqs[r].created = 0
       => areqs[r].status = 409

\* Two addresses that differ at most in letter case.
SameIgnoringCase(a, b) == a.name = b.name

\* C16: register compares emails without regard to letter case: when a user is
\* stored whose email differs from the submitted one at most in letter case,
\* the register request finds that user, is answered 409 and creates no second
\* user.
C16_CaseInsensitive ==
  [][\A r \in Slots :
       /\ /\ areqs[r].pc = "idle" /\ areqs'[r].op = "register" /\ ~areqs'[r].errors
          /\ \E id \in DOMAIN users : SameIgnoringCase(users[id].email, areqs'[r].sent)
          => /\ areqs'[r].pc = "checked"
             /\ areqs'[r].user.id \in DOMAIN users
             /\ SameIgnoringCase(areqs'[r].user.email, areqs'[r].sent)
       /\ /\ areqs[r].pc = "checked" /\ areqs[r].user.id # 0 /\ areqs'[r] # areqs[r]
          => /\ areqs'[r].status = 409 /\ areqs'[r].created = 0
             /\ DOMAIN users' = DOMAIN users
    ]_vars

\* C16 witness: a register that wrote a stored user's email in upper case has
\* been answered 409, and one user holds that mailbox.
C16_Witness ==
  \E r \in Slots :
    /\ areqs[r].pc = "done" /\ areqs[r].op = "register" /\ areqs[r].status = 409
    /\ areqs[r].sent.upper
    /\ areqs[r].user.id \in DOMAIN users
    /\ ~users[areqs[r].user.id].email.upper
    /\ Cardinality({id \in DOMAIN users : SameIgnoringCase(users[id].email, areqs[r].sent)}) = 1

\* What the client sees of a response.
Outcome(q) == <<q.status, q.message, q.errors, q.data, q.token>>

\* C17: a login with a stored email and a wrong password and a login with an
\* email that is not stored get the same response: 401 'Invalid email or
\* password', no user and no token.
C17_LoginIndistinguishable ==
  \A r \in Slots :
    /\ areqs[r].pc = "done" /\ areqs[r].op = "login" /\ ~areqs[r].errors
    /\ \/ areqs[r].user.id = 0
       \/ ~comparePassword(areqs[r].user, areqs[r].body.password)
    => Outcome(areqs[r]) = <<401, InvalidEmailOrPassword, FALSE, NoData, NoToken>>

\* C17 witness: a login with the email of a stored user and a wrong password
\* has been refused.
C17_Witness ==
  \E r \in Slots :
    /\ areqs[r].pc = "done" /\ areqs[r].op = "login" /\ areqs[r].status = 401
    /\ areqs[r].user.id \in DOMAIN users
    /\ areqs[r].body.password.of # 0
    /\ areqs[r].body.password.of # users[areqs[r].user.id].password.of

\* C18: every user a request of the /api/auth routes creates is stored with
\* role user, whatever the body says (a role field included), and no such
\* request changes the role of a stored user.
C18_RegisteredAsUser ==
  [][/\ \A id \in (DOMAIN users') \ (DOMAIN users) : users'[id].role = "user"
     /\ \A id \in DOMAIN users :
          id \in DOMAIN users' /\ users'[id].role = users[id].role
    ]_vars

\* C18 witness: a register whose body carried role admin has created a user,
\* stored with role user.
C18_Witness ==
  \E r \in Slots :
    /\ areqs[r].pc = "done" /\ areqs[r].op = "register" /\ areqs[r].status = 201
    /\ areqs[r].body.role = "admin"
    /\ areqs[r].created \in DOMAIN users
    /\ users[areqs[r].created].role = "user"
    /\ areqs[r].data.role = "user"

\* C19: no response of register, login or GET /me and no result of getUserById
\* carries a password field, and the password stored for every user is a
\* digest, never the submitted plaintext.
C19_NoPasswordExposed ==
  /\ \A r \in Slots :
       areqs[r].pc = "done" =>
         "password" \notin DOMAIN areqs[r].data /\ "password" \notin DOMAIN areqs[r].token
  /\ \A id \in UserIds : "password" \notin DOMAIN getUserById(users, id)
  /\ \A id \in DOMAIN users : users[id].password.t = "digest"

\* C19 witness: a login has succeeded; the response carries the user, and the
\* password the client submitted is stored as its digest.
C19_Witness ==
  \E r \in Slots :
    /\ areqs[r].pc = "done" /\ areqs[r].op = "login" /\ areqs[r].status = 200
    /\ areqs[r].data.id \in DOMAIN users
    /\ areqs[r].body.password = Plain(users[areqs[r].data.id].password.of)
    /\ users[areqs[r].data.id].password = Digest(areqs[r].body.password.of)

\* C20: the token a register or login response carries for user u is accepted
\* by verifyToken and by the authentication middleware and resolves to the
\* stored user of id u.id; and a GET /me that presents an unexpired token of
\* this server whose user is stored is answered 200 with that user.
C20_TokenRoundTrip ==
  /\ \A r \in Slots :
       /\ areqs[r].pc = "done" /\ areqs[r].op \in {"register", "login"}
       /\ areqs[r].status \in {200, 201}
       => /\ areqs[r].data.id \in DOMAIN users
          /\ verifyToken(areqs[r].token, users) = findOneById(users, areqs[r].data.id)
          /\ createAuthMiddleware(Bearer(areqs[r].token), users)
               = Attached(findOneById(users, areqs[r].data.id))
  /\ \A r \in Slots :
       /\ areqs[r].pc = "done" /\ areqs[r].op = "me"
       /\ Credential(areqs[r].header) = "signed"
       /\ areqs[r].header.token.userId \in DOMAIN users
       => /\ areqs[r].status = 200
          /\ areqs[r].data = toJSON(findOneById(users, areqs[r].header.token.userId))

\* C20 witness: a GET /me that presented the token issued to the second
\* registered user has been answered 200 with that user.
C20_Witness ==
  \E r \in Slots :
    /\ areqs[r].pc = "done" /\ areqs[r].op = "me" /\ areqs[r].status = 200
    /\ areqs[r].data.id = 2 /\ 2 \in DOMAIN users
    /\ areqs[r].header = Bearer(generateToken(findOneById(users, 2)))

\* A token that is malformed, altered after it was issued, expired, or whose
\* userId matches no stored user.
Unacceptable(tok) == ~tok.signed \/ tok.expired \/ tok.userId \notin DOMAIN users

\* C21: for every token that is malformed, altered, expired, or whose userId
\* matches no stored user, verifyToken returns null and the authentication
\* middleware answers 401; a GET /me that presents such a token gets 401 and no
\* user.
C21_BadTokenRejected ==
  /\ \A tok \in Presented(users) :
       Unacceptable(tok) =>
         /\ verifyToken(tok, users) = NullUser
         /\ createAuthMiddleware(Bearer(tok), users).status = 401
         /\ createAuthMiddleware(Bearer(tok), users).user = NullUser
  /\ \A r \in Slots :
       /\ areqs[r].pc = "done" /\ areqs[r].op = "me"
       /\ areqs[r].header.scheme = "Bearer" /\ Unacceptable(areqs[r].header.token)
       => areqs[r].status = 401 /\ areqs[r].data = NoData

\* C21 witness: a GET /me that presented the token of a stored user with its
\* signature altered has been answered 401.
C21_Witness ==
  \E r \in Slots :
    /\ areqs[r].pc = "done" /\ areqs[r].op = "me" /\ areqs[r].status = 401
    /\ areqs[r].header.scheme = "Bearer"
    /\ areqs[r].header.token.userId \in DOMAIN users
    /\ ~areqs[r].header.token.signed /\ ~areqs[r].header.token.expired

\* A request to a route with adminOnly that presented a signed token of a
\* stored user.
Gated(q) == q.op \in AdminRoutes /\ q.cred = "signed" /\ q.stored # "none"

\* C22: the role gate decides on the role the users table holds when the request
\* arrives, not on the role claim of the token: a request of a stored
\* administrator reaches the handler and one of a stored customer is answered
\* 403, whatever role the token it presents was issued with.
C22_StoredRoleDecides ==
  /\ \A id \in DOMAIN users, role \in {"user", "admin"} :
       LET old == [generateToken(findOneById(users, id)) EXCEPT !.role = role]
       IN adminOnly(Identity(createAuthMiddleware(Bearer(old), users)))
            = IF users[id].role = "admin" THEN 0 ELSE 403
  /\ \A r \in Slots :
       Gated(reqs[r]) =>
         IF reqs[r].stored = "admin"
         THEN ~(reqs[r].pc = "done" /\ reqs[r].by = "auth")
         ELSE reqs[r].pc = "done" /\ reqs[r].by = "auth" /\ reqs[r].status = 403

\* C22 witness: after the seed script made the first user an administrator, a
\* request that presents the token issued to them as a customer has passed the
\* gate of a route with adminOnly.
C22_Witness ==
  \E r \in Slots :
    /\ Gated(reqs[r]) /\ reqs[r].pc = "route"
    /\ reqs[r].claim = "user" /\ reqs[r].stored = "admin"

\* A search that was answered with its result.
Searched == last.op = "search" /\ last.status = 200

\* What the filters of a query ask of a row: the category is the one given,
\* the price is within the bounds given, and the name contains the string
\* given when the case of the letters is ignored.
CategoryOk(row, query) ==
  query.category.t = "undefined" \/ row.category = query.category.v
PriceOk(row, query) ==
  /\ query.minPrice.t = "undefined" \/ row.price >= query.minPrice.v
  /\ query.maxPrice.t = "undefined" \/ row.price <= query.maxPrice.v
Contains(text, part) ==
  \E i \in 0..(Len(text) - Len(part)) :
    \A j \in 1..Len(part) : Lower(text[i + j]) = Lower(part[j])
NameOk(row, query) ==
  query.name.t = "undefined" \/ Contains(row.name, query.name.v)

\* C23: a search whose query passes validation is answered 200 and changes no
\* row; every sweet it returns is stored and satisfies the category and the
\* price bounds given (both inclusive, an absent filter asking nothing), every
\* stored sweet that satisfies the filters given is returned, and the result is
\* empty when minPrice is above maxPrice.
C23_SearchFilters ==
  /\ last.op = "search" => rows = last.before
  /\ last.op = "search" /\ searchSweetValidation(last.query) => last.status = 200
  /\ Searched =>
       /\ last.found \subseteq DOMAIN last.before
       /\ \A id \in DOMAIN last.before :
            /\ id \in last.found =>
                 CategoryOk(last.before[id], last.query) /\ PriceOk(last.before[id], last.query)
            /\ /\ CategoryOk(last.before[id], last.query)
               /\ PriceOk(last.before[id], last.query)
               /\ NameOk(last.before[id], last.query)
               => id \in last.found
       /\ /\ last.query.minPrice.t # "undefined" /\ last.query.maxPrice.t # "undefined"
          /\ last.query.minPrice.v > last.query.maxPrice.v
          => last.found = {}

\* C23 witness: a search by category and by both price bounds returned one of
\* two stored sweets.
C23_Witness ==
  /\ Searched
  /\ last.query.name.t = "undefined" /\ last.query.category.t # "undefined"
  /\ last.query.minPrice.t # "undefined" /\ last.query.maxPrice.t # "undefined"
  /\ Cardinality(DOMAIN last.before) = 2 /\ Cardinality(last.found) = 1

\* C24: a search by name returns exactly the stored sweets whose name contains
\* the string given, the case of the letters ignored, and that satisfy the other
\* filters given.
C24_NameSubstring ==
  Searched /\ last.query.name.t # "undefined" =>
    last.found = {id \in DOMAIN last.before :
                    /\ Contains(last.before[id].name, last.query.name.v)
                    /\ CategoryOk(last.before[id], last.query)
                    /\ PriceOk(last.before[id], last.query)}

\* An update that passed validation and whose body holds fields of
\* UpdateSweetData only.
Updated == last.op = "update" /\ last.status # 400 /\ last.body.id.t = "undefined"

\* The value a field has after a merge: the one provided, else the one it had.
Merge(provided, old) == IF provided.t = "undefined" THEN old ELSE provided.v

\* The data fields of the sweet of the path are the merge of the body onto the
\* row the update found, and the update returned the row it left.
MergedOnto(id) ==
  /\ id \in DOMAIN rows
  /\ rows[id].name = Merge(last.body.name, last.before[id].name)
  /\ rows[id].category = Merge(last.body.category, last.before[id].category)
  /\ rows[id].price = Merge(last.body.price, last.before[id].price)
  /\ rows[id].quantity = Merge(last.body.quantity, last.before[id].quantity)
  /\ last.status = 200
  /\ last.data = SweetOf(id, rows[id])

NotFound == last.status = 404 /\ last.data = NoSweet /\ rows = last.before

\* C25 as amended: update(id, partialData) on an existing sweet sets exactly
\* the provided fields to the provided values, leaves every other field of the
\* sweet except updatedAt unchanged and returns the updated record; on an id
\* that matches no sweet it answers not found (404) and changes nothing.
C25_UpdateMerges ==
  Updated =>
    IF last.id \in DOMAIN last.before THEN MergedOnto(last.id) ELSE NotFound

\* C25 as stated: every field not present in partialData, updatedAt among
\* them, is unchanged.
C25_UpdateLeavesRest ==
  Updated =>
    IF last.id \in DOMAIN last.before
    THEN MergedOnto(last.id) /\ rows[last.id].updatedAt = last.before[last.id].updatedAt
    ELSE NotFound

\* C25 witness: an update that provided a new price and no quantity has been
\* answered 200.
C25_Witness ==
  /\ Updated /\ last.status = 200
  /\ last.body.price.t # "undefined" /\ last.body.quantity.t = "undefined"
  /\ last.body.name.t = "undefined"
  /\ rows[last.id].price # last.before[last.id].price

\* C28: an update leaves every sweet other than the one of the path as it
\* was: none is created, deleted or modified, whatever the body holds.
C28_OnlyPathSweet ==
  last.op = "update" =>
    \A i \in ((DOMAIN rows) \cup (DOMAIN last.before)) \ {last.id} :
      i \in DOMAIN rows /\ i \in DOMAIN last.before /\ rows[i] = last.before[i]

\* C26: a delete is answered 200 exactly when a sweet with the id of the path
\* was stored, and the sweet is then absent (findById finds nothing); for an
\* id that matches no sweet it is answered 404 'Sweet not found' and the table
\* is left as it was, so that a delete of an id already deleted is answered 404.
C26_DeleteReports ==
  [][\A r \in Slots :
       /\ reqs[r].pc = "route" /\ reqs[r].op = "delete"
       /\ reqs'[r] # reqs[r]
       => /\ reqs'[r].pc = "done"
          /\ reqs'[r].status = IF reqs[r].id \in DOMAIN sweets THEN 200 ELSE 404
          /\ reqs[r].id \notin DOMAIN sweets'
          /\ \A id \in (DOMAIN sweets) \ {reqs[r].id} :
               id \in DOMAIN sweets' /\ sweets'[id] = sweets[id]
          /\ reqs[r].id \notin DOMAIN sweets
               => sweets' = sweets /\ reqs'[r].message = SweetNotFound
    ]_vars

\* C26 witness: a delete of the id of a sweet that was created and has been
\* removed since is answered 404.
C26_Witness ==
  \E r \in Slots :
    /\ Answers(r, "delete", "service") /\ reqs[r].status = 404
    /\ reqs[r].id >= 1 /\ reqs[r].id < nextId
    /\ reqs[r].id \notin DOMAIN sweets

\* The steps of a request: it arrives and is rejected by a gate or handed to
\* its route; the route answers or awaits its repository call; the
\* continuation answers; the response leaves.
GateSteps ==
  {<<"idle", "done">>, <<"idle", "route">>, <<"route", "done">>,
   <<"route", "loaded">>, <<"loaded", "done">>, <<"done", "idle">>}

\* C27: a request passes the gates in order and once. adminOnly answers 401
\* without an identity and 403 for a role other than admin; a request reaches
\* its route handler only from its arrival, with a signed token and, on a route
\* with adminOnly, the admin role, and the handler never runs again; a request
\* a gate rejects is answered 401 or 403 in that step, leaves the sweets table
\* as it was and does nothing more than leave.
C27_GateOrder ==
  [][/\ adminOnly("none") = 401 /\ adminOnly("user") = 403 /\ adminOnly("admin") = 0
     /\ \A r \in Slots :
          /\ reqs'[r].pc # reqs[r].pc => <<reqs[r].pc, reqs'[r].pc>> \in GateSteps
          /\ reqs[r].pc = "idle" /\ reqs'[r].pc = "route"
               => /\ reqs'[r].cred = "signed"
                  /\ reqs'[r].op \in AdminRoutes => reqs'[r].user = "admin"
          /\ reqs[r].pc = "idle" /\ reqs'[r].pc = "done"
               => /\ reqs'[r].by = "auth" /\ reqs'[r].status \in {401, 403}
                  /\ reqs'[r].status = 403
                       <=> reqs'[r].op \in AdminRoutes /\ reqs'[r].user = "user"
                  /\ sweets' = sweets /\ nextId' = nextId
          /\ reqs[r].pc = "done" /\ reqs'[r] # reqs[r] => reqs'[r] = IdleReq
          /\ reqs'[r].pc = "done" /\ reqs[r].pc # "idle" => reqs'[r].by # "auth"
     /\ sweets' # sweets =>
          \E r \in Slots : reqs[r].pc \in {"route", "loaded"} /\ reqs'[r].pc # reqs[r].pc
    ]_vars

\* C27 witness: an administrator's restock has passed both gates and its
\* handler has loaded the sweet.
C27_Witness ==
  \E r \in Slots :
    /\ reqs[r].pc = "loaded" /\ reqs[r].op = "restock"
    /\ reqs[r].cred = "signed" /\ reqs[r].user = "admin"
    /\ reqs[r].sweet.found

\* C29: no request of a non-admin identity raises the stored quantity of an
\* existing sweet: while no administrator is registered, no step leaves a
\* stored sweet with more stock than it had.
C29_NoCustomerRaisesStock ==
  [][NoAdmin =>
       \A id \in (DOMAIN sweets) \cap (DOMAIN sweets') :
         sweets'[id].quantity <= sweets[id].quantity
    ]_vars

\* C30: once a delete has removed a sweet, it stays absent: a purchase, a
\* restock or an update that had loaded the sweet before the delete ran does
\* not store it again when it writes its result.
C30_DeletedStaysAbsent ==
  [][\A r \in Slots :
       /\ reqs[r].pc = "loaded" /\ reqs[r].gone
       /\ reqs[r].id \notin DOMAIN sweets
       => reqs[r].id \notin DOMAIN sweets'
    ]_vars

====
